---- MODULE Spec2Model ----
(***************************************************************************)
(* NirogAI diabetes screening route (backend/routes/diabetes.js) with the  *)
(* screenings table of backend/db/schema.sql.                              *)
(*                                                                         *)
(* One Node.js process serves the three handlers.  A handler runs          *)
(* synchronously up to each `await`; the awaited predictor call and the    *)
(* awaited store query complete later, so requests interleave only at      *)
(* those points.  Numbers that carry decimals (risk_probability,           *)
(* threshold_used, confidences) are held in hundredths: 45.0 is 4500.      *)
(***************************************************************************)
EXTENDS Integers, Sequences, FiniteSets, TLC

\* Number of requests a behaviour receives.
MaxReq == 2

(***************************************************************************)
(* JSON values of a request body.                                          *)
(***************************************************************************)
Undefined == [t |-> "undefined"]
Null      == [t |-> "null"]
Str(s)    == [t |-> "string", s |-> s]
Num(n)    == [t |-> "number", n |-> n]

\* const required = ['BMI', 'Age', 'GenHlth', 'PhysActivity'];
required == <<"BMI", "Age", "GenHlth", "PhysActivity">>

RequiredSet == {required[i] : i \in 1..Len(required)}

Fields == RequiredSet \cup {"HighBP", "mode"}

Body(bmi, age, gen, phys, highbp, mode) ==
    [f \in Fields |->
        CASE f = "BMI"          -> bmi
          [] f = "Age"          -> age
          [] f = "GenHlth"      -> gen
          [] f = "PhysActivity" -> phys
          [] f = "HighBP"       -> highbp
          [] OTHER              -> mode]

\* The request bodies the model submits.
FullBody    == Body(Num(27), Num(9), Num(3), Num(0), Num(1), Str("diagnostic"))

EmptyStringBody == Body(Num(27), Num(9), Str(""), Num(1), Undefined, Undefined)

AbsentBody  == Body(Undefined, Num(9), Num(3), Num(1), Undefined, Undefined)

NullBody    == Body(Num(27), Null, Num(3), Num(1), Undefined, Undefined)

AbsentAndNullBody == Body(Undefined, Null, Num(3), Num(1), Undefined, Str("screening"))

EmptyObject == Body(Undefined, Undefined, Undefined, Undefined, Undefined, Undefined)

Bodies ==
    {FullBody, EmptyStringBody, AbsentBody, NullBody, AbsentAndNullBody, EmptyObject}

\* required.filter(f => inputData[f] === undefined || inputData[f] === null),
\* and a variant that tests undefined alone.
Missing_OnlyUndefined(inputData) ==
    SelectSeq(required, LAMBDA f : inputData[f] = Undefined)

Missing(inputData) ==
    SelectSeq(required, LAMBDA f : inputData[f] = Undefined \/ inputData[f] = Null)

\* JavaScript truthiness of a JSON value, as `||` reads it.
Truthy(v) ==
    CASE v.t = "undefined" -> FALSE
      [] v.t = "null"      -> FALSE
      [] v.t = "string"    -> v.s # ""
      [] OTHER             -> v.n # 0

\* { ...inputData, mode: inputData.mode || 'screening' }
MlPayload(inputData) ==
    [inputData EXCEPT !["mode"] =
        IF Truthy(inputData["mode"]) THEN inputData["mode"] ELSE Str("screening")]

(***************************************************************************)
(* Authentication.                                                         *)
(***************************************************************************)
NoHeader     == [scheme |-> "none",   token |-> ""]
BasicHeader  == [scheme |-> "Basic",  token |-> "dXNlcg"]
Bearer(tok)  == [scheme |-> "Bearer", token |-> tok]

\* The (Authorization header, body) pairs POST /predict is called with.
PredictInputs ==
    ({Bearer("tok1")} \X (Bodies \ {EmptyStringBody}))
    \cup {<<Bearer("tok2"), EmptyStringBody>>,
          <<BasicHeader, FullBody>>, <<Bearer("expired"), EmptyObject>>}

\* jwt.verify(token, process.env.JWT_SECRET): the decoded payload's id, or 0
\* when verification throws.
JwtVerify(token) ==
    CASE token = "tok1" -> 1
      [] token = "tok2" -> 2
      [] OTHER          -> 0

AuthMiddleware(authHeader) ==
    IF authHeader.scheme # "Bearer"
    THEN [ok |-> FALSE, status |-> 401, error |-> "No token provided", user |-> 0]
    ELSE IF JwtVerify(authHeader.token) = 0
         THEN [ok |-> FALSE, status |-> 401, error |-> "Invalid or expired token", user |-> 0]
         ELSE [ok |-> TRUE, status |-> 200, error |-> "", user |-> JwtVerify(authHeader.token)]

(***************************************************************************)
(* Prediction results.                                                     *)
(***************************************************************************)
Disclaimer == "Screening only. Does not replace medical diagnosis."

\* key_factors of the mock response (the source writes a dash between the
\* two halves).
OfflineMarker == "ML service offline - mock response"

\* The mock response of the catch branch, and the same without its marker.

MockResult_Unmarked ==
    [disease          |-> "diabetes",
     risk_probability |-> 4500,
     risk_level       |-> "medium",
     key_factors      |-> <<"High BMI">>,
     recommendation   |-> "Please consult a doctor.",
     threshold_used   |-> 22,
     threshold_type   |-> "screening",
     model_confidence |-> {<<"mock", 4500>>},
     disclaimer       |-> Disclaimer]

MockResult ==
    [disease          |-> "diabetes",
     risk_probability |-> 4500,
     risk_level       |-> "medium",
     key_factors      |-> <<OfflineMarker>>,
     recommendation   |-> "Please consult a doctor.",
     threshold_used   |-> 22,
     threshold_type   |-> "screening",
     model_confidence |-> {<<"mock", 4500>>},
     disclaimer       |-> Disclaimer]

\* What the external predictor may answer with a 2xx status: a result with one
\* decimal (72.4), one with two (72.44), and one outside the documented shape
\* (another disease, an unknown level, 150.0).
MlAnswers ==
    { [disease |-> "diabetes", risk_probability |-> 7240, risk_level |-> "high",
       key_factors |-> <<"High BMI", "Age">>, recommendation |-> "See a doctor soon.",
       threshold_used |-> 22, threshold_type |-> "screening",
       model_confidence |-> {<<"xgboost", 8810>>, <<"lgbm", 7920>>},
       disclaimer |-> Disclaimer],
      [disease |-> "diabetes", risk_probability |-> 7244, risk_level |-> "high",
       key_factors |-> <<"High BMI", "Age">>, recommendation |-> "See a doctor soon.",
       threshold_used |-> 22, threshold_type |-> "screening",
       model_confidence |-> {<<"xgboost", 8810>>, <<"lgbm", 7920>>},
       disclaimer |-> Disclaimer],
      [disease |-> "anemia", risk_probability |-> 15000, risk_level |-> "critical",
       key_factors |-> <<>>, recommendation |-> "",
       threshold_used |-> 50, threshold_type |-> "diagnostic",
       model_confidence |-> {},
       disclaimer |-> ""] }

\* process.env.NODE_ENV; "" stands for the variable not being set.
NodeEnvs == {"development", "production", ""}

\* if (process.env.NODE_ENV === 'development'), and a variant that always
\* substitutes.
FallbackAllowed_Always(env) == TRUE

FallbackAllowed(env) == env = "development"

(***************************************************************************)
(* The screenings table.                                                   *)
(***************************************************************************)
\* id SERIAL PRIMARY KEY: the next value of the table's sequence.
NextVal(s) == s + 1

\* risk_probability DECIMAL(5,1): a value in hundredths rounded to one decimal
\* (half away from zero), still in hundredths.
ToDecimal51(h) ==
    IF h >= 0 THEN ((h + 5) \div 10) * 10 ELSE -(((-h + 5) \div 10) * 10)

\* DECIMAL(5,1) holds at most 9999.9.
DecimalMax == 999990

\* JSON.stringify(v) into a JSONB column, and the driver's parse of that column.
JsonStringify(v) == [json |-> v]

JsonParse(j) == j.json

\* The row the INSERT of POST /predict writes: its ten parameters, the id the
\* sequence gives and created_at DEFAULT NOW().  The variant is the row of an
\* INSERT that leaves the two TEXT columns to a later UPDATE.
InsertRow_Partial(id, now, userId, mlResult, inputData) ==
    [id               |-> id,
     user_id          |-> userId,
     disease          |-> mlResult.disease,
     risk_level       |-> mlResult.risk_level,
     risk_probability |-> ToDecimal51(mlResult.risk_probability),
     key_factors      |-> JsonStringify(mlResult.key_factors),
     recommendation   |-> "",
     model_confidence |-> JsonStringify(mlResult.model_confidence),
     input_data       |-> JsonStringify(inputData),
     threshold_type   |-> mlResult.threshold_type,
     disclaimer       |-> "",
     created_at       |-> now]

InsertRow(id, now, userId, mlResult, inputData) ==
    [id               |-> id,
     user_id          |-> userId,
     disease          |-> mlResult.disease,
     risk_level       |-> mlResult.risk_level,
     risk_probability |-> ToDecimal51(mlResult.risk_probability),
     key_factors      |-> JsonStringify(mlResult.key_factors),
     recommendation   |-> mlResult.recommendation,
     model_confidence |-> JsonStringify(mlResult.model_confidence),
     input_data       |-> JsonStringify(inputData),
     threshold_type   |-> mlResult.threshold_type,
     disclaimer       |-> mlResult.disclaimer,
     created_at       |-> now]

\* A row as the driver hands it to the handler (JSONB columns parsed).
RowToJs(row) ==
    [row EXCEPT !.key_factors      = JsonParse(row.key_factors),
                !.model_confidence = JsonParse(row.model_confidence),
                !.input_data       = JsonParse(row.input_data)]

(***************************************************************************)
(* State.                                                                  *)
(***************************************************************************)
VARIABLES
    NODE_ENV,     \* process.env.NODE_ENV, fixed when the process starts
    reqs,         \* the requests received so far, in order of arrival
    screenings,   \* the rows of the screenings table
    seq,          \* last value the id sequence gave out
    clock         \* latest reading of the store's NOW()

vars == <<NODE_ENV, reqs, screenings, seq, clock>>

\* A response that has not been sent carries status 0.
NoResponse ==
    [status |-> 0, error |-> "", missing |-> <<>>, screening_id |-> <<>>,
     created_at |-> <<>>, result |-> <<>>, count |-> <<>>, history |-> <<>>]

Response(status, error) == [NoResponse EXCEPT !.status = status, !.error = error]

NewRequest(kind, authHeader) ==
    [kind |-> kind, authHeader |-> authHeader, user |-> 0,
     body |-> <<>>, limit |-> <<>>, id |-> <<>>,
     pc |-> "received", trace |-> <<>>,
     sent |-> <<>>, mlCalls |-> 0, mlFailed |-> FALSE, mlResult |-> <<>>,
     dbOps |-> 0, dbError |-> "", inserts |-> 0, saved |-> <<>>,
     res |-> NoResponse]

\* res.status(..).json(..): the request ends with this response.
Respond(r, response) ==
    [r EXCEPT !.pc = "done", !.trace = Append(r.trace, "respond"), !.res = response]

(***************************************************************************)
(* POST /predict                                                           *)
(***************************************************************************)
\* The handler up to its first await: authMiddleware, validation, and the
\* axios.post to the predictor.  The variant posts to the predictor before it
\* looks at the outcome of either check.
PredictStart_NoShortCircuit(authHeader, inputData) ==
    LET a  == AuthMiddleware(authHeader)
        r0 == [NewRequest("predict", authHeader) EXCEPT
                 !.body = <<inputData>>, !.trace = <<"auth", "validate", "predict">>,
                 !.user = a.user, !.mlCalls = 1, !.sent = <<MlPayload(inputData)>>]
    IN  IF ~a.ok THEN Respond(r0, Response(a.status, a.error))
        ELSE IF Missing(inputData) # <<>>
             THEN Respond(r0, [Response(400, "Missing required fields")
                                 EXCEPT !.missing = Missing(inputData)])
             ELSE [r0 EXCEPT !.pc = "ml"]

PredictStart(authHeader, inputData) ==
    LET a  == AuthMiddleware(authHeader)
        r0 == [NewRequest("predict", authHeader) EXCEPT
                 !.body = <<inputData>>, !.trace = <<"auth">>]
    IN  IF ~a.ok THEN Respond(r0, Response(a.status, a.error))
        ELSE LET r1      == [r0 EXCEPT !.user = a.user, !.trace = Append(@, "validate")]
                 missing == Missing(inputData)
             IN  IF Len(missing) > 0
                 THEN Respond(r1, [Response(400, "Missing required fields")
                                     EXCEPT !.missing = missing])
                 ELSE [r1 EXCEPT !.pc = "ml", !.mlCalls = @ + 1,
                                 !.sent = <<MlPayload(inputData)>>,
                                 !.trace = Append(@, "predict")]

\* The handler from the predictor's answer to its next await (the INSERT) or
\* to its response.  answer: [ok |-> TRUE, data |-> ..] for a 2xx reply,
\* [ok |-> FALSE] when axios throws (unreachable, timeout, non-2xx).
AfterPredict(r, env, answer) ==
    IF ~answer.ok
    THEN IF FallbackAllowed(env)
         THEN [r EXCEPT !.mlFailed = TRUE, !.mlResult = <<MockResult>>,
                        !.pc = "db", !.dbOps = @ + 1, !.trace = Append(@, "insert")]
         ELSE Respond([r EXCEPT !.mlFailed = TRUE],
                      Response(503, "ML service unavailable. Please try again."))
    ELSE IF answer.data = Null
         \* mlResult.disease on null throws; the outer catch answers 500
         THEN Respond([r EXCEPT !.mlResult = <<answer.data>>],
                      Response(500, "Internal server error"))
         ELSE [r EXCEPT !.mlResult = <<answer.data>>, !.pc = "db", !.dbOps = @ + 1,
                        !.trace = Append(@, "insert")]

\* The handler after the INSERT resolved with RETURNING id, created_at.  One
\* variant answers with the row count in place of the id, one throws before
\* it answers.
AfterInsert_RowCount(r) ==
    Respond(r, [Response(200, "") EXCEPT
                  !.screening_id = <<1>>,
                  !.created_at   = <<r.saved[1].created_at>>,
                  !.result       = r.mlResult])

AfterInsert_Throws(r) == Respond(r, Response(500, "Internal server error"))

AfterInsert(r) ==
    Respond(r, [Response(200, "") EXCEPT
                  !.screening_id = <<r.saved[1].id>>,
                  !.created_at   = <<r.saved[1].created_at>>,
                  !.result       = r.mlResult])

\* The handler after the INSERT rejected: catch (error) answers 500.  The
\* variants answer with the prediction all the same, or have no catch and
\* leave the request without an answer.
InsertRejected_NoReply(r) == [r EXCEPT !.dbError = "fault", !.pc = "failed"]

InsertRejected_Leaky(r) ==
    Respond([r EXCEPT !.dbError = "fault"],
            [Response(200, "") EXCEPT !.result = r.mlResult])

InsertRejected(r) ==
    Respond([r EXCEPT !.dbError = "fault"], Response(500, "Internal server error"))

(***************************************************************************)
(* GET /history                                                            *)
(***************************************************************************)
\* The limit query strings GET /history is called with; Undefined when the
\* parameter is not given.
HistoryInputs ==
    ({Bearer("tok1")} \X {Undefined, Str("0"), Str("1"), Str("-1")})
    \cup {<<Bearer("tok2"), Undefined>>, <<NoHeader, Undefined>>}

\* parseInt(req.query.limit): NaN when there is no leading integer.
ParseInt(v) ==
    CASE v.t = "undefined"    -> [nan |-> TRUE,  n |-> 0]
      [] v = Str("0")         -> [nan |-> FALSE, n |-> 0]
      [] v = Str("1")         -> [nan |-> FALSE, n |-> 1]
      [] v = Str("2")         -> [nan |-> FALSE, n |-> 2]
      [] v = Str("-1")        -> [nan |-> FALSE, n |-> -1]
      [] OTHER                -> [nan |-> TRUE,  n |-> 0]

DefaultLimit == 10

\* const limit = parseInt(req.query.limit) || 10;   (NaN and 0 are falsy)
HistoryLimit(v) ==
    LET p == ParseInt(v) IN IF p.nan \/ p.n = 0 THEN DefaultLimit ELSE p.n

Min(a, b) == IF a <= b THEN a ELSE b

\* SELECT id, risk_level, risk_probability, key_factors, recommendation, created_at
HistoryColumns(row) ==
    [id               |-> row.id,
     risk_level       |-> row.risk_level,
     risk_probability |-> row.risk_probability,
     key_factors      |-> JsonParse(row.key_factors),
     recommendation   |-> row.recommendation,
     created_at       |-> row.created_at]

\* WHERE user_id = $1 AND disease = 'diabetes'
HistoryMatches(table, userId) ==
    {row \in table : row.user_id = userId /\ row.disease = "diabetes"}

\* ORDER BY created_at DESC LIMIT $2: every page the store may return; rows
\* with equal created_at come in any order.  The store rejects a negative
\* LIMIT.
HistoryQuery(table, userId, limit) ==
    IF limit < 0 THEN {[ok |-> FALSE, error |-> "LIMIT must not be negative"]}
    ELSE LET M == HistoryMatches(table, userId)
             k == Min(limit, Cardinality(M))
         IN  { [ok |-> TRUE, rows |-> [i \in 1..k |-> HistoryColumns(p[i])]] :
                 p \in { q \in [1..k -> M] :
                           /\ \A i, j \in 1..k : i < j =>
                                 /\ q[i] # q[j]
                                 /\ q[i].created_at >= q[j].created_at
                           /\ \A row \in M : (\A i \in 1..k : q[i] # row) =>
                                 \A i \in 1..k : q[i].created_at >= row.created_at } }

\* The handler of GET /history; answer is the store's reply to its query,
\* [ok |-> FALSE, error |-> ..] when pool.query rejects.
HistoryHandler(authHeader, limitParam, answer) ==
    LET a  == AuthMiddleware(authHeader)
        r0 == [NewRequest("history", authHeader) EXCEPT
                 !.limit = <<limitParam>>, !.trace = <<"auth">>]
    IN  IF ~a.ok THEN Respond(r0, Response(a.status, a.error))
        ELSE LET r1 == [r0 EXCEPT !.user = a.user, !.dbOps = @ + 1,
                                  !.trace = Append(@, "select")]
             IN  IF ~answer.ok
                 THEN Respond([r1 EXCEPT !.dbError = answer.error],
                              Response(500, "Internal server error"))
                 ELSE Respond(r1, [Response(200, "") EXCEPT
                                     !.count   = <<Len(answer.rows)>>,
                                     !.history = answer.rows])

(***************************************************************************)
(* GET /result/:id                                                         *)
(***************************************************************************)
ResultInputs ==
    ({Bearer("tok1")} \X {"1", "abc"})
    \cup {<<Bearer("tok2"), "1">>, <<NoHeader, "1">>}

\* The store's reading of the text parameter $1 against the integer column
\* id: 0 stands for "invalid input syntax for type integer".
IntegerInput(text) ==
    CASE text = "1" -> 1
      [] text = "2" -> 2
      [] text = "3" -> 3
      [] OTHER      -> 0

\* SELECT * FROM screenings WHERE id = $1 AND user_id = $2
ResultQuery(table, screeningId, userId) ==
    IF IntegerInput(screeningId) = 0
    THEN [ok |-> FALSE, error |-> "invalid input syntax for type integer"]
    ELSE [ok |-> TRUE,
          rows |-> {RowToJs(row) : row \in
                      {x \in table : x.id = IntegerInput(screeningId)
                                     /\ x.user_id = userId}}]

\* The handler of GET /result/:id; answer is the store's reply to its query.
ResultHandler(authHeader, idParam, answer) ==
    LET a  == AuthMiddleware(authHeader)
        r0 == [NewRequest("result", authHeader) EXCEPT
                 !.id = <<idParam>>, !.trace = <<"auth">>]
    IN  IF ~a.ok THEN Respond(r0, Response(a.status, a.error))
        ELSE LET r1 == [r0 EXCEPT !.user = a.user, !.dbOps = @ + 1,
                                  !.trace = Append(@, "select")]
             IN  IF ~answer.ok
                 THEN Respond([r1 EXCEPT !.dbError = answer.error],
                              Response(500, "Internal server error"))
                 ELSE IF answer.rows = {}
                      THEN Respond(r1, Response(404, "Screening not found"))
                      ELSE Respond(r1, [Response(200, "") EXCEPT
                                          !.result = <<CHOOSE row \in answer.rows : TRUE>>])

\* pool.query rejecting for a reason of the store's own (no connection,
\* timeout).
StoreFault == [ok |-> FALSE, error |-> "fault"]

Init ==
    /\ NODE_ENV \in NodeEnvs
    /\ reqs = <<>>
    /\ screenings = {}
    /\ seq = 0
    /\ clock = 0

PredictReceive ==
    \E in \in PredictInputs :
        /\ Len(reqs) < MaxReq
        /\ reqs' = Append(reqs, PredictStart(in[1], in[2]))
        /\ UNCHANGED <<NODE_ENV, screenings, seq, clock>>

PredictorAnswers(i) ==
    \E data \in MlAnswers \cup {Null} :
        /\ reqs[i].kind = "predict" /\ reqs[i].pc = "ml"
        /\ reqs' = [reqs EXCEPT ![i] = AfterPredict(@, NODE_ENV, [ok |-> TRUE, data |-> data])]
        /\ UNCHANGED <<NODE_ENV, screenings, seq, clock>>

PredictorFails(i) ==
    /\ reqs[i].kind = "predict" /\ reqs[i].pc = "ml"
    /\ reqs' = [reqs EXCEPT ![i] = AfterPredict(@, NODE_ENV, [ok |-> FALSE])]
    /\ UNCHANGED <<NODE_ENV, screenings, seq, clock>>

\* NOW() as the INSERT reads it: later than the previous reading, or equal to
\* it (two rows may carry the same created_at).
Readings(last, table) == {last + 1} \cup (IF table = {} THEN {} ELSE {last})

\* The store executes the INSERT: one row, atomically.
InsertCommits(i) ==
    \E now \in Readings(clock, screenings) :
        LET r   == reqs[i]
            id  == NextVal(seq)
            row == InsertRow(id, now, r.user, r.mlResult[1], r.body[1])
        IN  /\ r.kind = "predict" /\ r.pc = "db"
            /\ row.risk_probability <= DecimalMax
            /\ \A other \in screenings : other.id # id      \* PRIMARY KEY
            /\ screenings' = screenings \cup {row}
            /\ seq' = id
            /\ clock' = now
            /\ reqs' = [reqs EXCEPT ![i] =
                          [r EXCEPT !.pc = "saved", !.inserts = @ + 1,
                                    !.saved = <<[id |-> id, created_at |-> now]>>]]
            /\ UNCHANGED NODE_ENV

\* The INSERT is rejected (no connection, timeout): pool.query throws and no
\* row is written.
InsertFails(i) ==
    /\ reqs[i].kind = "predict" /\ reqs[i].pc = "db"
    /\ reqs' = [reqs EXCEPT ![i] = InsertRejected(@)]
    /\ UNCHANGED <<NODE_ENV, screenings, seq, clock>>

PredictResponds(i) ==
    /\ reqs[i].kind = "predict" /\ reqs[i].pc = "saved"
    /\ reqs' = [reqs EXCEPT ![i] = AfterInsert(@)]
    /\ UNCHANGED <<NODE_ENV, screenings, seq, clock>>

\* GET /history: the handler issues one SELECT and answers from its reply.
\* The SELECT reads the table at one instant, so the request is one step.
History ==
    \E in \in HistoryInputs :
        \E answer \in HistoryQuery(screenings, AuthMiddleware(in[1]).user,
                                   HistoryLimit(in[2])) \cup {StoreFault} :
            /\ Len(reqs) < MaxReq
            /\ reqs' = Append(reqs, HistoryHandler(in[1], in[2], answer))
            /\ UNCHANGED <<NODE_ENV, screenings, seq, clock>>

\* GET /result/:id, likewise one SELECT.
Result ==
    \E in \in ResultInputs :
        \E answer \in {ResultQuery(screenings, in[2], AuthMiddleware(in[1]).user),
                       StoreFault} :
            /\ Len(reqs) < MaxReq
            /\ reqs' = Append(reqs, ResultHandler(in[1], in[2], answer))
            /\ UNCHANGED <<NODE_ENV, screenings, seq, clock>>

Next ==
    \/ PredictReceive
    \/ \E i \in 1..Len(reqs) : PredictorAnswers(i)
    \/ \E i \in 1..Len(reqs) : PredictorFails(i)
    \/ \E i \in 1..Len(reqs) : InsertCommits(i)
    \/ \E i \in 1..Len(reqs) : InsertFails(i)
    \/ \E i \in 1..Len(reqs) : PredictResponds(i)
    \/ History
    \/ Result

Spec == Init /\ [][Next]_vars

\* An awaited call completes and the event loop resumes the handler: the
\* predictor call returns or times out (axios timeout 15000), the store's
\* INSERT returns or fails, and the continuation after the INSERT runs.
PredictorReturns(i) ==
    i <= Len(reqs) /\ (PredictorAnswers(i) \/ PredictorFails(i))

InsertReturns(i) ==
    i <= Len(reqs) /\ (InsertCommits(i) \/ InsertFails(i))

HandlerResumes(i) ==
    i <= Len(reqs) /\ PredictResponds(i)

FairSpec ==
    /\ Spec
    /\ \A i \in 1..MaxReq :
          /\ WF_vars(PredictorReturns(i))
          /\ WF_vars(InsertReturns(i))
          /\ WF_vars(HandlerResumes(i))

(***************************************************************************)
(* Properties.                                                             *)
(***************************************************************************)
Predicts == {i \in 1..Len(reqs) : reqs[i].kind = "predict"}

Authenticated(r) == AuthMiddleware(r.authHeader).ok

Done(r) == r.pc = "done"

Range(sq) == {sq[i] : i \in 1..Len(sq)}

Absent(body) == {f \in RequiredSet : body[f] = Undefined}

AbsentOrNull(body) == {f \in RequiredSet : body[f] = Undefined \/ body[f] = Null}

\* C1 as stated: an authenticated POST /predict whose body lacks a mandatory
\* field is answered 400 with `missing` exactly the set of mandatory fields
\* absent from the body, and inserts nothing.
C1_MissingIsExactlyAbsent ==
    \A i \in Predicts :
        LET r == reqs[i] IN
        (Authenticated(r) /\ Absent(r.body[1]) # {}) =>
            /\ Done(r) /\ r.res.status = 400
            /\ Range(r.res.missing) = Absent(r.body[1])
            /\ r.dbOps = 0 /\ r.inserts = 0

\* C1 amended: an authenticated POST /predict whose body has a mandatory field
\* absent or null is answered 400 with `missing` exactly the mandatory fields
\* that are absent or null (each once), and issues no store query.
C1_MissingIsAbsentOrNull ==
    \A i \in Predicts :
        LET r == reqs[i] IN
        (Authenticated(r) /\ AbsentOrNull(r.body[1]) # {}) =>
            /\ Done(r) /\ r.res.status = 400
            /\ Range(r.res.missing) = AbsentOrNull(r.body[1])
            /\ Len(r.res.missing) = Cardinality(AbsentOrNull(r.body[1]))
            /\ r.mlCalls = 0 /\ r.dbOps = 0 /\ r.inserts = 0 /\ r.saved = <<>>

\* C1's case: a body with one key absent and another null was answered 400.
C1_Witness ==
    \E i \in Predicts :
        /\ reqs[i].body[1] = AbsentAndNullBody
        /\ reqs[i].res.status = 400
        /\ reqs[i].res.missing = <<"BMI", "Age">>

\* C2: in a production deployment, a valid authenticated POST /predict whose
\* one predictor call fails is answered 503, gets no substituted result and
\* issues no store query.
C2_ProductionFailureIs503 ==
    \A i \in Predicts :
        LET r == reqs[i] IN
        (NODE_ENV = "production" /\ r.mlFailed) =>
            /\ Done(r) /\ r.res.status = 503
            /\ r.mlCalls = 1
            /\ r.mlResult = <<>> /\ r.res.result = <<>>
            /\ r.dbOps = 0 /\ r.inserts = 0

\* C2's case: a predictor failure in production, answered 503.
C2_Witness ==
    \E i \in Predicts :
        NODE_ENV = "production" /\ reqs[i].mlFailed /\ reqs[i].res.status = 503

HasOfflineMarker(r) ==
    /\ r.res.result # <<>>
    /\ OfflineMarker \in Range(r.res.result[1].key_factors)

StepsOfSuccess == <<"auth", "validate", "predict", "insert", "respond">>

\* C4: a 200 response of POST /predict carrying a result is sent only after
\* the INSERT of its row returned successfully (the row is in the table under
\* the returned id); when the INSERT fails the response is 500 and carries no
\* prediction field.
C4_AuditBeforeRespond ==
    \A i \in Predicts :
        LET r == reqs[i] IN
        /\ (r.res.status = 200) =>
              /\ r.trace = StepsOfSuccess
              /\ r.inserts = 1 /\ r.dbError = "" /\ r.res.result # <<>>
              /\ \E row \in screenings :
                    /\ row.id = r.res.screening_id[1]
                    /\ row.created_at = r.res.created_at[1]
                    /\ row.user_id = r.user
        /\ (r.dbError # "") =>
              /\ Done(r) /\ r.res.status = 500
              /\ r.res.result = <<>> /\ r.res.screening_id = <<>>
              /\ r.res.created_at = <<>>
        /\ (r.res.status # 200) => r.res.result = <<>>

\* C4's case: a prediction was obtained and its INSERT failed.
C4_Witness ==
    \E i \in Predicts :
        /\ reqs[i].dbError # "" /\ reqs[i].mlResult # <<>>
        /\ reqs[i].res.status = 500

\* C5: the table holds one row per POST /predict that ended 200 (or whose
\* INSERT has returned and whose 200 is about to be sent); a request that ended
\* otherwise inserted nothing, and one that ended 400, 401 or 503 issued no
\* store query.
C5_OneRowPerSuccess ==
    /\ Cardinality(screenings) =
          Cardinality({i \in Predicts : reqs[i].res.status = 200 \/ reqs[i].pc = "saved"})
    /\ \A i \in Predicts :
          LET r == reqs[i] IN
          /\ r.inserts = (IF r.res.status = 200 \/ r.pc = "saved" THEN 1 ELSE 0)
          /\ Cardinality({row \in screenings :
                             r.saved # <<>> /\ row.id = r.saved[1].id}) = r.inserts
          /\ (r.res.status \in {400, 401, 503}) => r.dbOps = 0

\* C5's case: one request ended 200 and another ended 400 or 503.
C5_Witness ==
    \E i, j \in Predicts :
        /\ reqs[i].res.status = 200
        /\ reqs[j].res.status \in {400, 503}
        /\ Cardinality(screenings) = 1

Results == {i \in 1..Len(reqs) : reqs[i].kind = "result"}

Histories == {i \in 1..Len(reqs) : reqs[i].kind = "history"}

\* The rows of the table that the id parameter names and the caller owns.
OwnedBy(r) ==
    {row \in screenings : row.id = IntegerInput(r.id[1]) /\ row.user_id = r.user}

\* C6 as stated: GET /result/:id answers 404 when the id names no row or a
\* row of another user, and a 200 carries a row of the caller; GET /history
\* returns rows of the caller only.  (A request the store itself failed, which
\* ends 500, is left out of the statement.)
C6_UnknownOrForeignIdIs404 ==
    /\ \A i \in Results :
          LET r == reqs[i] IN
          (Authenticated(r) /\ r.dbError # "fault") =>
              /\ (OwnedBy(r) = {}) => r.res.status = 404
              /\ (r.res.status = 200) => r.res.result[1].user_id = r.user
    /\ \A i \in Histories :
          LET r == reqs[i] IN
          \A k \in 1..Len(r.res.history) :
              \E row \in screenings :
                  row.id = r.res.history[k].id /\ row.user_id = r.user

\* The limit of a GET /history as the claim reads it: the number given, 10
\* when the parameter is not given.
LimitAsked(r) ==
    IF r.limit[1] = Undefined THEN DefaultLimit ELSE ParseInt(r.limit[1]).n

\* C7 as stated: a 200 of GET /history carries at most `limit` records (10
\* without the parameter), all diabetes screenings of the caller, newest
\* first, and count is their number.
C7_HistoryAtMostLimit ==
    \A i \in Histories :
        LET r == reqs[i]
            h == r.res.history
        IN  (r.res.status = 200) =>
              /\ Len(h) <= LimitAsked(r)
              /\ r.res.count = <<Len(h)>>
              /\ \A k, l \in 1..Len(h) : k < l => h[k].created_at >= h[l].created_at
              /\ \A k \in 1..Len(h) :
                    \E row \in HistoryMatches(screenings, r.user) : row.id = h[k].id

RiskFields(x) ==
    [disease          |-> x.disease,
     risk_level       |-> x.risk_level,
     risk_probability |-> x.risk_probability,
     key_factors      |-> x.key_factors,
     recommendation   |-> x.recommendation,
     model_confidence |-> x.model_confidence,
     threshold_type   |-> x.threshold_type,
     disclaimer       |-> x.disclaimer]

\* C8 as stated: when the predictor succeeded and POST /predict ended 200, the
\* row inserted for the request carries the caller's id, the submitted input
\* and risk fields equal to the result in the response, and a later
\* GET /result/:id of the caller for the returned id yields the same values.
C8_RowEqualsReturnedResult ==
    \A i \in Predicts :
        LET r == reqs[i] IN
        (r.res.status = 200 /\ ~r.mlFailed) =>
            /\ \E row \in screenings :
                  /\ row.id = r.res.screening_id[1]
                  /\ row.user_id = r.user
                  /\ JsonParse(row.input_data) = r.body[1]
                  /\ RiskFields(RowToJs(row)) = RiskFields(r.res.result[1])
            /\ \A j \in Results :
                  LET g == reqs[j] IN
                  (/\ g.res.status = 200 /\ g.user = r.user
                   /\ IntegerInput(g.id[1]) = r.res.screening_id[1]) =>
                      /\ RiskFields(g.res.result[1]) = RiskFields(r.res.result[1])
                      /\ g.res.result[1].input_data = r.body[1]

\* C9: any two POST /predict that ended 200, also with the same caller, body
\* and result, returned different screening_id values, each the id of a row
\* of its own; ids are unique in the table.
C9_DistinctScreeningIds ==
    /\ \A i, j \in Predicts :
          (i # j /\ reqs[i].res.status = 200 /\ reqs[j].res.status = 200) =>
              reqs[i].res.screening_id # reqs[j].res.screening_id
    /\ \A i \in Predicts :
          (reqs[i].res.status = 200) =>
              \E row \in screenings :
                  /\ row.id = reqs[i].res.screening_id[1]
                  /\ row.user_id = reqs[i].user
                  /\ row.created_at = reqs[i].res.created_at[1]
    /\ \A a, b \in screenings : a.id = b.id => a = b
    /\ Cardinality(screenings) >=
          Cardinality({i \in Predicts : reqs[i].res.status = 200})

\* C9's case: two identical submissions of one caller, both answered 200.
C9_Witness ==
    \E i, j \in Predicts :
        /\ i # j
        /\ reqs[i].res.status = 200 /\ reqs[j].res.status = 200
        /\ reqs[i].user = reqs[j].user
        /\ reqs[i].body = reqs[j].body
        /\ reqs[i].res.result = reqs[j].res.result
        /\ reqs[i].res.screening_id # reqs[j].res.screening_id
        /\ Cardinality(screenings) = 2

\* The steps a POST /predict may have taken so far.
PredictPaths ==
    { <<"auth", "respond">>,
      <<"auth", "validate", "respond">>,
      <<"auth", "validate", "predict">>,
      <<"auth", "validate", "predict", "respond">>,
      <<"auth", "validate", "predict", "insert">>,
      StepsOfSuccess }

\* C10: a POST /predict takes its steps in the order authenticate, validate,
\* predict, insert, respond; one that fails authentication ends 401 and one
\* that fails validation ends 400, both without a predictor call or a store
\* query; no INSERT is issued without a prediction result.
C10_ShortCircuitOrder ==
    \A i \in Predicts :
        LET r == reqs[i] IN
        /\ r.trace \in PredictPaths
        /\ r.mlCalls <= 1 /\ r.dbOps <= 1
        /\ ~Authenticated(r) =>
              /\ r.res.status = 401 /\ r.trace = <<"auth", "respond">>
              /\ r.mlCalls = 0 /\ r.dbOps = 0
        /\ (Authenticated(r) /\ AbsentOrNull(r.body[1]) # {}) =>
              /\ r.res.status = 400 /\ r.trace = <<"auth", "validate", "respond">>
              /\ r.mlCalls = 0 /\ r.dbOps = 0
        /\ (r.res.status = 401) => ~Authenticated(r)
        /\ (r.res.status = 400) => AbsentOrNull(r.body[1]) # {}
        /\ (r.dbOps > 0) =>
              /\ r.mlCalls = 1
              /\ r.mlResult # <<>> /\ r.mlResult[1] # Null

\* C10's case: a complete body without credentials ended 401, an incomplete
\* body ended 400, and the table is untouched.
C10_Witness ==
    \E i, j \in Predicts :
        /\ reqs[i].res.status = 401 /\ reqs[i].body[1] = FullBody
        /\ reqs[j].res.status = 400
        /\ screenings = {}

\* The mandatory fields the claim counts as missing: absent, null, or empty.
AbsentNullOrEmpty(body) ==
    {f \in RequiredSet : body[f] = Undefined \/ body[f] = Null \/ body[f] = Str("")}

\* C11 as stated: an authenticated POST /predict is answered 400, with the
\* field in `missing`, exactly when a mandatory field is absent, null or
\* empty; a body whose mandatory fields are all non-null and non-empty passes
\* validation whatever extra fields it carries.
C11_AbsentNullEmptyAreMissing ==
    \A i \in Predicts :
        LET r == reqs[i] IN
        Authenticated(r) =>
            /\ (AbsentNullOrEmpty(r.body[1]) # {}) =>
                  /\ r.res.status = 400
                  /\ Range(r.res.missing) = AbsentNullOrEmpty(r.body[1])
            /\ (AbsentNullOrEmpty(r.body[1]) = {}) =>
                  /\ r.res.status # 400
                  /\ r.mlCalls = 1

\* C13 as stated: every row of the table and every result of a 200 of
\* POST /predict has risk_level low, medium or high and risk_probability
\* within 0..100 (0..10000 in hundredths).
C13_RiskLevelAndProbabilityInRange ==
    /\ \A row \in screenings :
          /\ row.risk_level \in {"low", "medium", "high"}
          /\ row.risk_probability \in 0..10000
    /\ \A i \in Predicts :
          (reqs[i].res.status = 200) =>
              /\ reqs[i].res.result[1].risk_level \in {"low", "medium", "high"}
              /\ reqs[i].res.result[1].risk_probability \in 0..10000

\* The twelve columns of the screenings table.
Columns ==
    {"id", "user_id", "disease", "risk_level", "risk_probability", "key_factors",
     "recommendation", "model_confidence", "input_data", "threshold_type",
     "disclaimer", "created_at"}

\* row is the whole record of the request r: every column is there and holds
\* what r submitted and what r's prediction said.
CompleteRecordOf(row, r) ==
    /\ DOMAIN row = Columns
    /\ r.saved = <<[id |-> row.id, created_at |-> row.created_at]>>
    /\ row.user_id = r.user
    /\ row.disease = r.mlResult[1].disease
    /\ row.risk_level = r.mlResult[1].risk_level
    /\ row.risk_probability = ToDecimal51(r.mlResult[1].risk_probability)
    /\ JsonParse(row.key_factors) = r.mlResult[1].key_factors
    /\ row.recommendation = r.mlResult[1].recommendation
    /\ JsonParse(row.model_confidence) = r.mlResult[1].model_confidence
    /\ JsonParse(row.input_data) = r.body[1]
    /\ row.threshold_type = r.mlResult[1].threshold_type
    /\ row.disclaimer = r.mlResult[1].disclaimer

\* The INSERT of the request r has succeeded: the store returned its id and
\* created_at, and r has answered 200 or is about to.
InsertSucceeded(r) ==
    /\ r.kind = "predict" /\ r.inserts = 1
    /\ r.pc = "saved" \/ (r.pc = "done" /\ r.res.status = 200)

\* C12: with POST /predict, GET /history and GET /result/:id interleaved, a
\* row of the table is always the complete record of a request whose INSERT
\* has succeeded; what a 200 of GET /result/:id or GET /history returns are
\* the columns of such a row; and a request that failed, or is suspended in
\* the predictor call or in the INSERT, has no row.
C12_OnlyCompleteCommittedRowsVisible ==
    /\ \A row \in screenings :
          \E i \in Predicts : InsertSucceeded(reqs[i]) /\ CompleteRecordOf(row, reqs[i])
    /\ \A g \in Results :
          (reqs[g].res.status = 200) =>
              \E row \in screenings, i \in Predicts :
                  /\ i < g
                  /\ InsertSucceeded(reqs[i]) /\ CompleteRecordOf(row, reqs[i])
                  /\ reqs[g].res.result = <<RowToJs(row)>>
    /\ \A h \in Histories :
          (reqs[h].res.status = 200) =>
              \A k \in 1..Len(reqs[h].res.history) :
                  \E row \in screenings, i \in Predicts :
                      /\ i < h
                      /\ InsertSucceeded(reqs[i]) /\ CompleteRecordOf(row, reqs[i])
                      /\ reqs[h].res.history[k] = HistoryColumns(row)
    /\ \A i \in Predicts :
          ~InsertSucceeded(reqs[i]) =>
              /\ reqs[i].inserts = 0 /\ reqs[i].saved = <<>>
              /\ \A row \in screenings : ~CompleteRecordOf(row, reqs[i])

\* A row read by GET /result/:id after its INSERT succeeded and before the
\* POST that wrote it has answered.
C12_Witness ==
    \E i \in Predicts, g \in Results :
        /\ reqs[i].pc = "saved"
        /\ reqs[g].res.status = 200
        /\ reqs[g].res.result[1].id = reqs[i].saved[1].id
        /\ reqs[g].res.result[1].recommendation = reqs[i].mlResult[1].recommendation

\* The statuses a POST /predict can end with.
PredictStatuses == {200, 400, 401, 503, 500}

\* The number of responses the request r has sent.
Responses(r) == Cardinality({k \in 1..Len(r.trace) : r.trace[k] = "respond"})

\* The i-th request is a POST /predict that has been received.
PredictReceived(i) == i <= Len(reqs) /\ reqs[i].kind = "predict"

\* The i-th request has ended with one response of an allowed status.
PredictEnded(i) ==
    /\ i <= Len(reqs)
    /\ reqs[i].pc = "done"
    /\ Responses(reqs[i]) = 1
    /\ reqs[i].res.status \in PredictStatuses

\* C14: a POST /predict goes through authenticate, validate, predict, insert,
\* respond in that order or leaves the path with a failure response; it has
\* sent no response while it runs and one when it has ended; once ended it
\* never changes (no second response); and, the awaited calls completing, it
\* eventually ends with one response whose status is 200, 400, 401, 503 or 500.
C14_EndsWithExactlyOneResponse ==
    /\ [](\A i \in Predicts :
            /\ reqs[i].trace \in PredictPaths
            /\ (reqs[i].pc # "done") => (Responses(reqs[i]) = 0 /\ reqs[i].res.status = 0)
            /\ (reqs[i].pc = "done") => PredictEnded(i))
    /\ [][\A i \in Predicts : (reqs[i].pc = "done") => (reqs'[i] = reqs[i])]_vars
    /\ \A i \in 1..MaxReq : PredictReceived(i) ~> PredictEnded(i)

\* Two requests that ended differently: one went the whole path and was
\* answered 200, one left it at the predictor call and was answered 503.
C14_Witness ==
    \E i, j \in Predicts :
        /\ PredictEnded(i) /\ reqs[i].res.status = 200 /\ reqs[i].trace = StepsOfSuccess
        /\ PredictEnded(j) /\ reqs[j].res.status = 503
        /\ reqs[j].trace = <<"auth", "validate", "predict", "respond">>

====
